---- MODULE Spec2Model ----
(***************************************************************************)
(* Query tree construction and evaluation of meilisearch-core               *)
(* (src/meilisearch-core/src/query_tree.rs).                                *)
(*                                                                         *)
(* Strings are sequences of one-character strings, so that split_at,       *)
(* concat, join, to_lowercase and the whitespace tokenisation are computed *)
(* on characters.  Option<T> is a sequence of length 0 (None) or 1 (Some). *)
(***************************************************************************)
EXTENDS Integers, Sequences, FiniteSets, TLC

VARIABLES
    words_set,      \* the term dictionary (fst::Set): a set of terms
    postings,       \* store::PostingsLists: term -> sorted list of DocIndex
    synonyms,       \* store::Synonyms: joined words -> list of word lists
    query,          \* the query string last given to create_query_tree
    tree,           \* the Operation last built or last traversed
    ngrams,         \* create_query_tree's `ngrams` vector before the final Or
    docids,         \* QueryResult.docids
    queries,        \* QueryResult.queries (the `postings` map of the traversal)
    cache,          \* the traversal's Cache: Operation -> SetBuf<DocumentId>
    evaluated,      \* every node an execute_* call computed, in call order
    reads,          \* every dictionary search and postings fetch, in order
    unwrap_failed,  \* SetBuf::new(..).unwrap() panicked in the Phrase branch
    best,           \* the last result of split_best_frequency
    word,           \* the word last given to split_best_frequency
    pc              \* which operation produced the current state

vars == <<words_set, postings, synonyms, query, tree, ngrams, docids, queries,
          cache, evaluated, reads, unwrap_failed, best, word, pc>>

----------------------------------------------------------------------------
(* Bounds of the model *)

MaxQueryLen == 7
MaxFreq == 2
MaxPostings == 2
MaxChildren == 2

----------------------------------------------------------------------------
(* Generic helpers *)

Min(a, b) == IF a < b THEN a ELSE b

Range(s) == {s[i] : i \in 1..Len(s)}

RECURSIVE Flatten(_)
Flatten(ss) == IF ss = <<>> THEN <<>> ELSE Head(ss) \o Flatten(Tail(ss))

SeqsUpTo(S, n) == UNION {[1..k -> S] : k \in 0..n}

None == <<>>
Some(x) == <<x>>

----------------------------------------------------------------------------
(* Characters and strings *)

IsWhitespace(c) == c = " "

Lower(c) == CASE c = "A" -> "a" [] c = "B" -> "b" [] OTHER -> c

to_lowercase(s) == [i \in 1..Len(s) |-> Lower(s[i])]

\* str::contains(char::is_whitespace)
contains_whitespace(s) == \E i \in 1..Len(s) : IsWhitespace(s[i])

\* str::split_at(i): i counts characters (the loop only offers char boundaries)
split_at(s, i) == <<SubSeq(s, 1, i), SubSeq(s, i + 1, Len(s))>>

concat(ws) == Flatten(ws)

RECURSIVE join(_, _)
join(ws, sep) ==
    IF ws = <<>> THEN <<>>
    ELSE IF Len(ws) = 1 THEN ws[1]
    ELSE ws[1] \o sep \o join(Tail(ws), sep)

\* slice_group_by's linear_group_by_key: maximal runs of equal key
RECURSIVE linear_group_by_key(_)
linear_group_by_key(s) ==
    IF s = <<>> THEN <<>>
    ELSE LET k == IsWhitespace(s[1])
             n == CHOOSE m \in 1..Len(s) :
                    /\ \A i \in 1..m : IsWhitespace(s[i]) = k
                    /\ m = Len(s) \/ IsWhitespace(s[m + 1]) # k
         IN  <<SubSeq(s, 1, n)>> \o linear_group_by_key(SubSeq(s, n + 1, Len(s)))

\* lines 164-168: lowercase, group, drop whitespace groups, enumerate from 0
tokenize(q) ==
    LET groups == linear_group_by_key(to_lowercase(q))
        kept   == SelectSeq(groups, LAMBDA g : ~contains_whitespace(g))
    IN  [i \in 1..Len(kept) |-> [id |-> i - 1, word |-> kept[i]]]

----------------------------------------------------------------------------
(* Operation, Query, QueryKind *)

NoQuery == [id |-> 0, prefix |-> FALSE, kind |-> "None", words |-> <<>>]

And(children) == [op |-> "And", children |-> children, query |-> NoQuery]
Or(children) == [op |-> "Or", children |-> children, query |-> NoQuery]
QueryOp(q) == [op |-> "Query", children |-> <<>>, query |-> q]

tolerant(id, prefix, s) == [id |-> id, prefix |-> prefix, kind |-> "Tolerant", words |-> <<s>>]
exact(id, prefix, s) == [id |-> id, prefix |-> prefix, kind |-> "Exact", words |-> <<s>>]
phrase2(id, prefix, lr) == [id |-> id, prefix |-> prefix, kind |-> "Phrase", words |-> <<lr[1], lr[2]>>]

Mk(f, children) == IF f = "And" THEN And(children) ELSE Or(children)

----------------------------------------------------------------------------
(* The expansion oracle *)

postings_list(pls, term) == IF term \in DOMAIN pls THEN Some(pls[term]) ELSE None

Freq(pls, term) ==
    LET pl == postings_list(pls, term) IN IF pl = None THEN 0 ELSE Len(pl[1])

split_replaces_ties(min_freq, b) == min_freq # 0 /\ (b = None \/ min_freq >= b[1].freq)

\* line 118: the test that lets a split replace the best one so far
split_replaces(min_freq, b) == min_freq # 0 /\ (b = None \/ min_freq > b[1].freq)

RECURSIVE split_loop(_, _, _, _)
split_loop(pls, w, i, b) ==
    IF i > Len(w) - 1 THEN b
    ELSE LET lr == split_at(w, i)
             min_freq == Min(Freq(pls, lr[1]), Freq(pls, lr[2]))
         IN  IF split_replaces(min_freq, b)
             THEN split_loop(pls, w, i + 1, Some([freq |-> min_freq, left |-> lr[1], right |-> lr[2]]))
             ELSE split_loop(pls, w, i + 1, b)

split_best_frequency(pls, w) ==
    LET b == split_loop(pls, w, 1, None)
    IN  IF b = None THEN None ELSE Some(<<b[1].left, b[1].right>>)

\* lines 126-135: the store is never read; the result is always empty
fetch_synonyms(syn, ws) ==
    LET joined == join(ws, <<" ">>) IN <<>>

----------------------------------------------------------------------------
(* The query tree builder *)

MAX_NGRAM == 3

create_operation_nocollapse(ops, f) == Mk(f, ops)

create_operation(ops, f) == IF Len(ops) = 1 THEN ops[1] ELSE Mk(f, ops)

windows(s, n) ==
    IF Len(s) < n THEN <<>> ELSE [i \in 1..(Len(s) - n + 1) |-> SubSeq(s, i, i + n - 1)]

is_last(s) == [i \in 1..Len(s) |-> <<i = Len(s), s[i]>>]

\* lines 172-176: one grouping per window of size ngram
ngiter(ws, ngram) ==
    LET wins == windows(ws, ngram)
    IN  [k \in 1..Len(wins) |->
            windows(SubSeq(ws, 1, k - 1), 1) \o <<wins[k]>>
                \o windows(SubSeq(ws, k + ngram, Len(ws)), 1)]

groups_taken_nobreak(ngram, it) == it

\* lines 178 and 218: the groupings the loop body runs on (break after the
\* first one when ngram = 1)
groups_taken(ngram, it) == IF ngram = 1 THEN SubSeq(it, 1, Min(1, Len(it))) ELSE it

synonym_op(id, alts) ==
    create_operation([j \in 1..Len(alts) |-> QueryOp(exact(id, FALSE, alts[j]))], "And")

\* lines 182-214: the Or of alternatives of one group
group_op(pls, syn, last, ws) ==
    IF Len(ws) = 1
    THEN LET id == ws[1].id
             w  == ws[1].word
             split == split_best_frequency(pls, w)
             phrase == [j \in 1..Len(split) |-> QueryOp(phrase2(id, last, split[j]))]
             fetched == fetch_synonyms(syn, <<w>>)
             syns == [j \in 1..Len(fetched) |-> synonym_op(id, fetched[j])]
             alts == <<QueryOp(tolerant(id, last, w))>> \o syns \o phrase
         IN  create_operation(alts, "Or")
    ELSE LET id == ws[1].id
             strs == [j \in 1..Len(ws) |-> ws[j].word]
             fetched == fetch_synonyms(syn, strs)
             syns == [j \in 1..Len(fetched) |-> synonym_op(id, fetched[j])]
             alts == syns \o <<QueryOp(exact(id, last, concat(strs)))>>
         IN  create_operation(alts, "Or")

\* lines 179-217: one interpretation
interpretation_op(pls, syn, group) ==
    LET marked == is_last(group)
    IN  create_operation(
            [k \in 1..Len(marked) |-> group_op(pls, syn, marked[k][1], marked[k][2])],
            "And")

\* lines 170-220
build_ngrams(pls, syn, ws) ==
    Flatten([ngram \in 1..MAX_NGRAM |->
        LET taken == groups_taken(ngram, ngiter(ws, ngram))
        IN  [k \in 1..Len(taken) |-> interpretation_op(pls, syn, taken[k])]])

create_query_tree(pls, syn, q) ==
    create_operation(build_ngrams(pls, syn, tokenize(q)), "Or")

----------------------------------------------------------------------------
(* Ordered sets (sdset) and postings entries *)

DocIndex(d, a, w) == [document_id |-> d, attribute |-> a, word_index |-> w]

RECURSIVE insert_sorted(_, _)
insert_sorted(x, s) ==
    IF s = <<>> THEN <<x>>
    ELSE IF x <= Head(s) THEN <<x>> \o s
    ELSE <<Head(s)>> \o insert_sorted(x, Tail(s))

RECURSIVE sort(_)
sort(v) == IF v = <<>> THEN <<>> ELSE insert_sorted(Head(v), sort(Tail(v)))

\* Vec::dedup: removes consecutive repeated elements
RECURSIVE dedup(_)
dedup(v) ==
    IF Len(v) <= 1 THEN v
    ELSE IF v[1] = v[2] THEN dedup(Tail(v))
    ELSE <<v[1]>> \o dedup(Tail(v))

\* SetBuf::from_dirty: sort then dedup
from_dirty(v) == dedup(sort(v))

IsStrictlyAscending(v) == \A i \in 1..(Len(v) - 1) : v[i] < v[i + 1]

\* SetBuf::new: Ok(v) when v is sorted and deduplicated, Err otherwise
SetBuf_new(v) == IF IsStrictlyAscending(v) THEN Some(v) ELSE None

\* sdset::multi::Intersection over the children's sets (lines 272-273)
Intersection(results) ==
    IF results = <<>> THEN <<>>
    ELSE SelectSeq(results[1],
            LAMBDA d : \A i \in 2..Len(results) : d \in Range(results[i]))

----------------------------------------------------------------------------
(* Automata: crate::automaton, outside this file *)

RECURSIVE Levenshtein(_, _)
Levenshtein(s, t) ==
    IF s = <<>> THEN Len(t)
    ELSE IF t = <<>> THEN Len(s)
    ELSE IF Head(s) = Head(t) THEN Levenshtein(Tail(s), Tail(t))
    ELSE 1 + Min(Levenshtein(Tail(s), Tail(t)),
                 Min(Levenshtein(Tail(s), t), Levenshtein(s, Tail(t))))

typo_distance(w) == IF Len(w) <= 4 THEN 0 ELSE IF Len(w) <= 8 THEN 1 ELSE 2

build_dfa(w) == [word |-> w, distance |-> typo_distance(w), prefix |-> FALSE]
build_prefix_dfa(w) == [word |-> w, distance |-> typo_distance(w), prefix |-> TRUE]
build_exact_dfa(w) == [word |-> w, distance |-> 0, prefix |-> FALSE]

Accepts(dfa, t) ==
    IF dfa.prefix
    THEN \E n \in 0..Len(t) : Levenshtein(dfa.word, SubSeq(t, 1, n)) <= dfa.distance
    ELSE Levenshtein(dfa.word, t) <= dfa.distance

----------------------------------------------------------------------------
(* The term dictionary *)

CharCode(c) == CASE c = " " -> 32 [] c = "A" -> 65 [] c = "B" -> 66
                 [] c = "a" -> 97 [] c = "b" -> 98 [] c = "c" -> 99 [] OTHER -> 122

RECURSIVE BytesLess(_, _)
BytesLess(s, t) ==
    IF t = <<>> THEN FALSE
    ELSE IF s = <<>> THEN TRUE
    ELSE IF Head(s) = Head(t) THEN BytesLess(Tail(s), Tail(t))
    ELSE CharCode(Head(s)) < CharCode(Head(t))

RECURSIVE ascending_terms(_)
ascending_terms(S) ==
    IF S = {} THEN <<>>
    ELSE LET m == CHOOSE x \in S : \A y \in S \ {x} : BytesLess(x, y)
         IN  <<m>> \o ascending_terms(S \ {m})

\* fst::Set::search(dfa).into_stream(): the accepted terms in byte order
search(ws, dfa) == ascending_terms({t \in ws : Accepts(dfa, t)})

----------------------------------------------------------------------------
(* The tree evaluator.  env = [words_set, pls] is the read-only snapshot;   *)
(* st = [cache, postings, evaluated, reads, failed, docids] is the          *)
(* traversal's mutable state together with the set the last call returned.  *)

cache_get_ignoring_prefix(c, op) ==
    LET hits == {k \in DOMAIN c :
                    /\ k.op = op.op /\ k.children = op.children
                    /\ k.query.id = op.query.id /\ k.query.kind = op.query.kind
                    /\ k.query.words = op.query.words}
    IN  IF hits = {} THEN None ELSE Some(c[CHOOSE k \in hits : TRUE])

\* HashMap::get on the derived Hash/Eq of Operation: structural equality
cache_get(c, op) == IF op \in DOMAIN c THEN Some(c[op]) ELSE None

\* HashMap::insert
cache_insert(c, op, d) == (op :> d) @@ c

\* HashMap::entry(op).or_insert(d)
cache_or_insert(c, op, d) == IF op \in DOMAIN c THEN c ELSE (op :> d) @@ c

succ_index_u16(w) == (w + 1) % 65536

\* line 372: (a.word_index as u32) + 1
succ_index(w) == w + 1

\* lines 372-374: Ordering of x against y as -1, 0, 1
phrase_cmp(a, b) ==
    LET x == <<a.document_id, a.attribute, succ_index(a.word_index)>>
        y == <<b.document_id, b.attribute, b.word_index>>
    IN  IF x[1] # y[1] THEN (IF x[1] < y[1] THEN -1 ELSE 1)
        ELSE IF x[2] # y[2] THEN (IF x[2] < y[2] THEN -1 ELSE 1)
        ELSE IF x[3] # y[3] THEN (IF x[3] < y[3] THEN -1 ELSE 1)
        ELSE 0

\* itertools::merge_join_by followed by filter_map(EitherOrBoth::both)
RECURSIVE merge_join_both(_, _, _, _)
merge_join_both(first, second, i, j) ==
    IF i > Len(first) \/ j > Len(second) THEN <<>>
    ELSE LET c == phrase_cmp(first[i], second[j])
         IN  IF c < 0 THEN merge_join_both(first, second, i + 1, j)
             ELSE IF c > 0 THEN merge_join_both(first, second, i, j + 1)
             ELSE <<<<first[i], second[j]>>>> \o merge_join_both(first, second, i + 1, j + 1)

unwrap_or_default(o) == IF o = None THEN <<>> ELSE o[1]

phrase_docids_nodedup(matches) == [i \in 1..Len(matches) |-> matches[i].document_id]

\* lines 382-383
phrase_docids(matches) == dedup([i \in 1..Len(matches) |-> matches[i].document_id])

\* lines 341-349 and 355-363: the documents of every streamed term
dfa_docids(env, dfa) ==
    LET terms == search(env.words_set, dfa)
        lists == [i \in 1..Len(terms) |-> unwrap_or_default(postings_list(env.pls, terms[i]))]
        all == Flatten(lists)
    IN  from_dirty([i \in 1..Len(all) |-> all[i].document_id])

dfa_reads(env, dfa) ==
    LET terms == search(env.words_set, dfa)
    IN  <<[read |-> "search", arg |-> dfa.word]>>
            \o [i \in 1..Len(terms) |-> [read |-> "postings_list", arg |-> terms[i]]]

\* line 339
tolerant_dfa(q) == IF q.prefix THEN build_prefix_dfa(q.words[1]) ELSE build_dfa(q.words[1])

\* line 353
exact_dfa(q) == build_exact_dfa(q.words[1])

\* lines 318-399; the insertion into `postings` (line 397) is commented out
execute_query(env, st, q) ==
    LET s0 == [st EXCEPT !.evaluated = Append(@, QueryOp(q))]
    IN  CASE q.kind = "Tolerant" ->
               [s0 EXCEPT !.docids = dfa_docids(env, tolerant_dfa(q)),
                          !.reads = @ \o dfa_reads(env, tolerant_dfa(q))]
          [] q.kind = "Exact" ->
               [s0 EXCEPT !.docids = dfa_docids(env, exact_dfa(q)),
                          !.reads = @ \o dfa_reads(env, exact_dfa(q))]
          [] OTHER ->
               IF Len(q.words) = 2
               THEN LET first == unwrap_or_default(postings_list(env.pls, q.words[1]))
                        second == unwrap_or_default(postings_list(env.pls, q.words[2]))
                        both == merge_join_both(first, second, 1, 1)
                        matches == Flatten([i \in 1..Len(both) |-> <<both[i][1], both[i][2]>>])
                        set == SetBuf_new(phrase_docids(matches))
                    IN  [s0 EXCEPT !.docids = unwrap_or_default(set),
                                   !.failed = @ \/ set = None,
                                   !.reads = @ \o <<[read |-> "postings_list", arg |-> q.words[1]],
                                                    [read |-> "postings_list", arg |-> q.words[2]]>>]
               ELSE [s0 EXCEPT !.docids = <<>>]

RECURSIVE execute_and(_, _, _), execute_or(_, _, _)

\* the match of lines 257-261, 299-303 and 404-408
execute_operation(env, st, op) ==
    CASE op.op = "And" -> execute_and(env, st, op.children)
      [] op.op = "Or" -> execute_or(env, st, op.children)
      [] OTHER -> execute_query(env, st, op.query)

and_store_noinsert(r, op) == r

\* line 262: the computed set is stored under the child
and_store(r, op) == [r EXCEPT !.cache = cache_insert(r.cache, op, r.docids)]

\* lines 255-264
RECURSIVE and_loop(_, _, _, _)
and_loop(env, st, operations, i) ==
    IF i > Len(operations) THEN st
    ELSE IF cache_get(st.cache, operations[i]) = None
         THEN and_loop(env,
                       and_store(execute_operation(env, st, operations[i]), operations[i]),
                       operations, i + 1)
         ELSE and_loop(env, st, operations, i + 1)

\* lines 266-273
and_result(st, operations) ==
    LET hits == SelectSeq(operations, LAMBDA op : cache_get(st.cache, op) # None)
        results == [i \in 1..Len(hits) |-> cache_get(st.cache, hits[i])[1]]
    IN  [st EXCEPT !.docids = Intersection(results)]

called(st, op) == [st EXCEPT !.evaluated = Append(@, op)]

\* lines 240-278
execute_and(env, st, operations) ==
    and_result(and_loop(env, called(st, And(operations)), operations, 1), operations)

\* lines 296-308 on a cache hit
or_hit(acc, op) ==
    [st |-> acc.st, ids |-> acc.ids \o cache_get(acc.st.cache, op)[1]]

\* lines 296-308 on a cache miss, r being what the child's execute_* returned
or_miss(acc, op, r) ==
    LET c == cache_or_insert(r.cache, op, r.docids)
    IN  [st |-> [r EXCEPT !.cache = c], ids |-> acc.ids \o c[op]]

\* lines 295-309
RECURSIVE or_loop(_, _, _, _)
or_loop(env, acc, operations, i) ==
    IF i > Len(operations) THEN acc
    ELSE IF cache_get(acc.st.cache, operations[i]) # None
         THEN or_loop(env, or_hit(acc, operations[i]), operations, i + 1)
         ELSE or_loop(env,
                      or_miss(acc, operations[i],
                              execute_operation(env, acc.st, operations[i])),
                      operations, i + 1)

\* line 311
or_result(acc) == [acc.st EXCEPT !.docids = from_dirty(acc.ids)]

\* lines 280-316
execute_or(env, st, operations) ==
    or_result(or_loop(env, [st |-> called(st, Or(operations)), ids |-> <<>>], operations, 1))

\* lines 401-410
traverse_query_tree(env, t) ==
    execute_operation(env,
        [cache |-> <<>>, postings |-> <<>>, evaluated |-> <<>>, reads |-> <<>>,
         failed |-> FALSE, docids |-> <<>>],
        t)

----------------------------------------------------------------------------
(* Inputs *)

Ta == <<"a">>
Tb == <<"b">>
Tab == <<"a", "b">>
Tba == <<"b", "a">>

QueryChars == {"a", "B", " "}
Queries == SeqsUpTo(QueryChars, MaxQueryLen)

\* a function given as a set of <<key, value>> pairs with distinct keys
FromPairs(ps) == [k \in {p[1] : p \in ps} |-> (CHOOSE p \in ps : p[1] = k)[2]]

\* the stores the pipeline runs against: an empty index, and two indexes
\* with a synonyms store that holds entries
PostingsA ==
    FromPairs({ <<Ta, <<DocIndex(1, 0, 0), DocIndex(2, 0, 1)>>>>,
                <<Tb, <<DocIndex(1, 0, 1), DocIndex(3, 0, 0)>>>>,
                <<Tab, <<DocIndex(2, 0, 0)>>>> })

PostingsB ==
    FromPairs({ <<Ta, <<DocIndex(1, 0, 0), DocIndex(1, 1, 0), DocIndex(2, 0, 0)>>>>,
                <<Tb, <<DocIndex(1, 0, 1), DocIndex(1, 1, 1)>>>>,
                <<Tab, <<DocIndex(1, 0, 0)>>>>,
                <<Tba, <<DocIndex(2, 0, 5), DocIndex(4, 0, 0)>>>>,
                <<<<"a", "a", "a", "a">>, <<DocIndex(5, 0, 0)>>>> })

SynonymsA ==
    FromPairs({ <<<<"a", " ", "b">>, <<<<Tab>>, <<Tb, Ta>>>>>>,
                <<Ta, <<<<Tb>>>>>> })

PipelineSnapshots ==
    { [pls |-> <<>>, syn |-> <<>>],
      [pls |-> PostingsA, syn |-> SynonymsA],
      [pls |-> PostingsB, syn |-> SynonymsA] }

InitVars(ws, pls, syn) ==
    /\ words_set = ws
    /\ postings = pls
    /\ synonyms = syn
    /\ query = <<>>
    /\ tree = <<>>
    /\ ngrams = <<>>
    /\ docids = <<>>
    /\ queries = <<>>
    /\ cache = <<>>
    /\ evaluated = <<>>
    /\ reads = <<>>
    /\ unwrap_failed = FALSE
    /\ best = None
    /\ word = <<>>
    /\ pc = "init"

Init == \E s \in PipelineSnapshots : InitVars(DOMAIN s.pls, s.pls, s.syn)

----------------------------------------------------------------------------
(* Operations *)

snapshot == <<words_set, postings, synonyms>>
traversal == <<docids, queries, cache, evaluated, reads, unwrap_failed>>

NoTraversal ==
    /\ docids' = <<>>
    /\ queries' = <<>>
    /\ cache' = <<>>
    /\ evaluated' = <<>>
    /\ reads' = <<>>
    /\ unwrap_failed' = FALSE

CreateQueryTree ==
    \E q \in Queries :
        /\ pc = "init"
        /\ query' = q
        /\ ngrams' = build_ngrams(postings, synonyms, tokenize(q))
        /\ tree' = create_query_tree(postings, synonyms, q)
        /\ pc' = "created"
        /\ NoTraversal
        /\ UNCHANGED <<snapshot, best, word>>

TraverseQueryTree ==
    /\ pc = "created"
    /\ LET r == traverse_query_tree([words_set |-> words_set, pls |-> postings], tree)
       IN  /\ docids' = r.docids
           /\ queries' = r.postings
           /\ cache' = r.cache
           /\ evaluated' = r.evaluated
           /\ reads' = r.reads
           /\ unwrap_failed' = r.failed
    /\ pc' = "traversed"
    /\ UNCHANGED <<snapshot, query, tree, ngrams, best, word>>

Next == CreateQueryTree \/ TraverseQueryTree

Spec == Init /\ [][Next]_vars

----------------------------------------------------------------------------
(* Evaluation of caller-supplied trees *)

EvalLeafSeq ==
    << QueryOp(tolerant(0, TRUE, Ta)), QueryOp(tolerant(0, FALSE, Ta)),
       QueryOp(exact(0, TRUE, Ta)), QueryOp(phrase2(0, TRUE, <<Ta, Tb>>)) >>

EvalLeaves == Range(EvalLeafSeq)

\* subtrees a supplied tree is made of: the leaves, and an And and an Or of
\* every two distinct leaves
EvalPool ==
    EvalLeaves \cup
    UNION {{And(<<EvalLeafSeq[p[1]], EvalLeafSeq[p[2]]>>),
            Or(<<EvalLeafSeq[p[1]], EvalLeafSeq[p[2]]>>)} :
            p \in {q \in (1..Len(EvalLeafSeq)) \X (1..Len(EvalLeafSeq)) : q[1] < q[2]}}

EvalTrees ==
    EvalLeaves \cup
    UNION {{And(cs), Or(cs)} : cs \in SeqsUpTo(EvalPool, MaxChildren)}

\* the dictionary always holds a, b and ab; ab may have no postings list
EvalPostings ==
    { FromPairs({<<Ta, la>>, <<Tb, lb>>} \cup lab) :
        la \in { <<DocIndex(1, 0, 0), DocIndex(1, 1, 0)>>,
                 <<DocIndex(1, 0, 0), DocIndex(2, 0, 0)>> },
        lb \in { <<DocIndex(1, 0, 1), DocIndex(1, 1, 1)>>,
                 <<DocIndex(2, 0, 1), DocIndex(3, 0, 0)>> },
        lab \in { {}, {<<Tab, <<DocIndex(2, 0, 0), DocIndex(3, 0, 1)>>>>} } }

InitEval == \E pls \in EvalPostings : InitVars({Ta, Tb, Tab}, pls, <<>>)

Supply(trees) ==
    \E t \in trees :
        /\ pc = "init"
        /\ tree' = t
        /\ pc' = "created"
        /\ NoTraversal
        /\ UNCHANGED <<snapshot, query, ngrams, best, word>>

SupplyTree == Supply(EvalTrees)

NextEval == SupplyTree \/ TraverseQueryTree

SpecEval == InitEval /\ [][NextEval]_vars

----------------------------------------------------------------------------
(* Evaluation of Phrase leaves over arbitrary sorted postings lists *)

\* every strictly ascending list of at most n of the entries of S
RECURSIVE ascending_entries(_)
ascending_entries(S) ==
    IF S = {} THEN <<>>
    ELSE LET m == CHOOSE x \in S : \A y \in S \ {x} :
                    \/ x.document_id < y.document_id
                    \/ x.document_id = y.document_id /\ x.attribute < y.attribute
                    \/ x.document_id = y.document_id /\ x.attribute = y.attribute
                         /\ x.word_index < y.word_index
         IN  <<m>> \o ascending_entries(S \ {m})

SortedLists(S, n) == {ascending_entries(T) : T \in {U \in SUBSET S : Cardinality(U) <= n}}

FirstEntries == {DocIndex(d, a, w) : d \in {1, 2}, a \in {0, 1}, w \in {0, 65535}}
SecondEntries == {DocIndex(d, a, w) : d \in {1, 2}, a \in {0, 1}, w \in {0, 1}}

PhraseLeaves ==
    { QueryOp(phrase2(0, TRUE, <<Ta, Tb>>)),
      QueryOp([id |-> 0, prefix |-> TRUE, kind |-> "Phrase", words |-> <<Ta>>]),
      QueryOp([id |-> 0, prefix |-> FALSE, kind |-> "Phrase", words |-> <<Ta, Tb, Ta>>]) }

InitPhrase ==
    \E fa \in {{}} \cup {{<<Ta, l>>} : l \in SortedLists(FirstEntries, MaxPostings)},
       fb \in {{}} \cup {{<<Tb, l>>} : l \in SortedLists(SecondEntries, MaxPostings)} :
        LET pls == FromPairs(fa \cup fb) IN InitVars(DOMAIN pls, pls, <<>>)

SupplyPhrase == Supply(PhraseLeaves)

NextPhrase == SupplyPhrase \/ TraverseQueryTree

SpecPhrase == InitPhrase /\ [][NextPhrase]_vars

----------------------------------------------------------------------------
(* The best-frequency split over arbitrary postings lengths *)

MaxWordLen == 4

SplitTerms == {Ta, Tb, Tab, Tba}
SplitWords == SeqsUpTo({"a", "b"}, MaxWordLen) \ {<<>>}

\* a postings list of n entries
ListOfLen(n) == [i \in 1..n |-> DocIndex(i, 0, 0)]

InitSplit ==
    \E f \in [SplitTerms -> -1..MaxFreq] :
        LET present == {t \in SplitTerms : f[t] >= 0}
            pls == [t \in present |-> ListOfLen(f[t])]
        IN  InitVars(present, pls, <<>>)

SplitBestFrequency ==
    \E w \in SplitWords :
        /\ pc = "init"
        /\ word' = w
        /\ best' = split_best_frequency(postings, w)
        /\ pc' = "split"
        /\ UNCHANGED <<snapshot, query, tree, ngrams, traversal>>

NextSplit == SplitBestFrequency

SpecSplit == InitSplit /\ [][NextSplit]_vars

----------------------------------------------------------------------------
(* Vocabulary of the properties *)

Max(a, b) == IF a > b THEN a ELSE b

RECURSIVE Subtrees(_)
Subtrees(t) == {t} \cup UNION {Subtrees(t.children[i]) : i \in 1..Len(t.children)}

RECURSIVE Preorder(_)
Preorder(t) == <<t>> \o Flatten([i \in 1..Len(t.children) |-> Preorder(t.children[i])])

RECURSIVE FirstOccurrences(_, _)
FirstOccurrences(s, seen) ==
    IF s = <<>> THEN <<>>
    ELSE IF Head(s) \in seen THEN FirstOccurrences(Tail(s), seen)
    ELSE <<Head(s)>> \o FirstOccurrences(Tail(s), seen \cup {Head(s)})

Entries(term) == IF term \in DOMAIN postings THEN Range(postings[term]) ELSE {}

DocsOf(term) == {e.document_id : e \in Entries(term)}

IsPrefixOf(w, t) == Len(w) <= Len(t) /\ SubSeq(t, 1, Len(w)) = w

\* the documents in which some entry of w1 is directly followed by one of w2
PhraseSet(ws) ==
    IF Len(ws) # 2 THEN {}
    ELSE {e1.document_id : e1 \in
            {e \in Entries(ws[1]) :
                \E e2 \in Entries(ws[2]) :
                    /\ e2.document_id = e.document_id
                    /\ e2.attribute = e.attribute
                    /\ e2.word_index = e.word_index + 1}}

LeafDfa(q) == IF q.kind = "Tolerant" THEN tolerant_dfa(q) ELSE exact_dfa(q)

LeafSet(q) ==
    IF q.kind = "Phrase" THEN PhraseSet(q.words)
    ELSE UNION {DocsOf(t) : t \in {u \in words_set : Accepts(LeafDfa(q), u)}}

\* the set-theoretic value of a tree
RECURSIVE Denote(_)
Denote(t) ==
    CASE t.op = "Query" -> LeafSet(t.query)
      [] t.op = "Or" -> UNION {Denote(t.children[i]) : i \in 1..Len(t.children)}
      [] OTHER -> {d \in Denote(t.children[1]) :
                      \A i \in 2..Len(t.children) : d \in Denote(t.children[i])}

HasEmptyAnd(t) == \E s \in Subtrees(t) : s.op = "And" /\ s.children = <<>>

Tokens == tokenize(query)

----------------------------------------------------------------------------
(* Properties of the evaluator *)

\* C1: for a tree in which every And has a child, traverse_query_tree returns
\* exactly the set-theoretic value of the tree (leaf: union of the documents
\* of the accepted dictionary terms; And: intersection; Or: union), whatever
\* the cache held on the way.
C1_TraverseIsSetValue ==
    (pc = "traversed" /\ ~HasEmptyAnd(tree)) => Range(docids) = Denote(tree)

C1_Witness ==
    /\ pc = "traversed"
    /\ tree.op = "Or"
    /\ Len(tree.children) = 2
    /\ tree.children[1].op = "And"
    /\ tree.children[2].op = "Or"
    /\ tree.children[2].children[1] = tree.children[1].children[1]
    /\ tree.children[1].children[1].query.kind = "Tolerant"
    /\ Len(docids) >= 2
    /\ Denote(tree.children[1]) # {}
    /\ Denote(tree.children[1]) # Denote(tree)

\* C2: the returned set, and every set stored for a node on the way, is
\* strictly ascending, and the Phrase branch's SetBuf::new never fails.
C2_SetsAscending ==
    pc = "traversed" =>
        /\ IsStrictlyAscending(docids)
        /\ \A op \in DOMAIN cache : IsStrictlyAscending(cache[op])
        /\ ~unwrap_failed

C2_Witness ==
    /\ pc = "traversed"
    /\ tree.op = "Or"
    /\ \E op \in DOMAIN cache :
          /\ op.query.kind = "Phrase"
          /\ cache[op] = <<1>>
          /\ Cardinality({e \in Entries(op.query.words[1]) :
                            e.document_id = 1 /\
                            \E e2 \in Entries(op.query.words[2]) :
                                /\ e2.document_id = 1 /\ e2.attribute = e.attribute
                                /\ e2.word_index = e.word_index + 1}) = 2
    /\ Len(docids) >= 2

\* what a leaf matched: the entries of the accepted terms, or both entries of
\* every adjacent pair of a phrase
LeafMatches(q) ==
    IF q.kind = "Phrase"
    THEN {e \in Entries(q.words[1]) \cup Entries(q.words[2]) :
            /\ Len(q.words) = 2
            /\ e.document_id \in PhraseSet(q.words)}
    ELSE UNION {Entries(t) : t \in {u \in words_set : Accepts(LeafDfa(q), u)}}

\* C3: after a traversal, QueryResult.queries holds an entry for every Query
\* leaf that was evaluated, mapping it to the postings entries it matched.
C3_LeafPostingsRetained ==
    pc = "traversed" =>
        \A s \in Subtrees(tree) :
            s.op = "Query" =>
                /\ s.query \in DOMAIN queries
                /\ Range(queries[s.query]) = LeafMatches(s.query)

\* C7: a leaf with prefix = true returns the documents of every dictionary
\* term that extends its word: a Tolerant leaf uses the prefix DFA when
\* prefix is set and the plain DFA otherwise; an Exact leaf over w returns the
\* documents of every term that has w as a prefix when prefix is set, and
\* those of w alone otherwise.
C7_PrefixLeaves ==
    (pc = "traversed" /\ tree.op = "Query" /\ tree.query.kind \in {"Tolerant", "Exact"}) =>
        LET q == tree.query
            w == q.words[1]
        IN  /\ q.kind = "Tolerant" =>
                  Range(docids) = UNION {DocsOf(t) : t \in
                      {u \in words_set :
                          Accepts(IF q.prefix THEN build_prefix_dfa(w) ELSE build_dfa(w), u)}}
            /\ q.kind = "Exact" =>
                  Range(docids) = UNION {DocsOf(t) : t \in
                      {u \in words_set : IF q.prefix THEN IsPrefixOf(w, u) ELSE u = w}}
            /\ q.prefix =>
                  \A u \in words_set : IsPrefixOf(w, u) => DocsOf(u) \subseteq Range(docids)

ReadsNeeded(s) ==
    IF s.op # "Query" THEN 0
    ELSE IF s.query.kind = "Phrase" THEN (IF Len(s.query.words) = 2 THEN 2 ELSE 0)
    ELSE 1 + Cardinality({u \in words_set : Accepts(LeafDfa(s.query), u)})

RECURSIVE TotalReads(_)
TotalReads(S) ==
    IF S = {} THEN 0
    ELSE LET x == CHOOSE y \in S : TRUE IN ReadsNeeded(x) + TotalReads(S \ {x})

\* C8: within one traversal every structurally distinct subtree is computed
\* exactly once, at its first occurrence in left-to-right depth-first order;
\* every non-root subtree is then in the cache, and the dictionary and
\* postings reads are those of one evaluation per distinct leaf.
C8_ComputedOnce ==
    pc = "traversed" =>
        /\ evaluated = FirstOccurrences(Preorder(tree), {})
        /\ DOMAIN cache = Subtrees(tree) \ {tree}
        /\ Len(reads) = TotalReads(Subtrees(tree))

C8_Witness ==
    /\ pc = "traversed"
    /\ Len(Preorder(tree)) >= Cardinality(Subtrees(tree)) + 4
    /\ \E s \in Subtrees(tree) \ {tree} :
          /\ s.op = "Or"
          /\ Cardinality({i \in 1..Len(Preorder(tree)) : Preorder(tree)[i] = s}) >= 2
    /\ Len(reads) >= 4

\* C9: a document is in the result of Phrase([w1, w2]) exactly when some
\* entry (d, a, k) of w1 has the entry (d, a, k + 1) in w2, k + 1 being
\* computed without 16-bit wraparound; a missing postings list and a phrase
\* of another length give the empty set.
C9_PhraseAdjacency ==
    (pc = "traversed" /\ tree.op = "Query" /\ tree.query.kind = "Phrase") =>
        /\ Range(docids) = PhraseSet(tree.query.words)
        /\ ~unwrap_failed

C9_Witness ==
    /\ pc = "traversed"
    /\ tree.op = "Query" /\ tree.query.kind = "Phrase"
    /\ Len(tree.query.words) = 2
    /\ docids # <<>>
    /\ \E e1 \in Entries(tree.query.words[1]), e2 \in Entries(tree.query.words[2]) :
          /\ e1.word_index = 65535 /\ e2.word_index = 0
          /\ e1.document_id = e2.document_id /\ e1.attribute = e2.attribute
          /\ e1.document_id \notin Range(docids)

----------------------------------------------------------------------------
(* Properties of the builder *)

\* the alternative the synonyms store asks for: the And of Exact leaves of a
\* synonym list, a bare Exact leaf for a one-word list
ExpectedSynonym(id, list) ==
    IF Len(list) = 1 THEN QueryOp(exact(id, FALSE, list[1]))
    ELSE And([j \in 1..Len(list) |-> QueryOp(exact(id, FALSE, list[j]))])

\* the runs of g consecutive tokens, each a group of some interpretation
TokenGroups ==
    UNION {{SubSeq(Tokens, i, i + g - 1) : i \in 1..(Len(Tokens) - g + 1)} : g \in 1..MAX_NGRAM}

GroupKey(group) == join([j \in 1..Len(group) |-> group[j].word], <<" ">>)

\* C4: when the synonyms store holds an entry for the space-joined words of a
\* group, the Or built for that group contains, for each synonym list, the
\* And of Exact leaves of its words (a bare leaf for one word), each with the
\* group's leftmost id and prefix = false.
C4_SynonymsExpand ==
    pc = "created" =>
        \A group \in TokenGroups :
            GroupKey(group) \in DOMAIN synonyms =>
                \A k \in 1..Len(synonyms[GroupKey(group)]) :
                    \E s \in Subtrees(tree) :
                        /\ s.op = "Or"
                        /\ ExpectedSynonym(group[1].id, synonyms[GroupKey(group)][k])
                              \in Range(s.children)

Combinators(t) == {s \in Subtrees(t) : s.op \in {"And", "Or"}}

\* C5 as stated: for every query string, the empty and the whitespace-only
\* ones included, every And and every Or of the tree has at least two children.
C5_EveryCombinatorHasTwo ==
    pc = "created" => \A s \in Combinators(tree) : Len(s.children) >= 2

\* C5, amended: for a query with at least one word every And and every Or of
\* the tree has at least two children (a combinator of one child is replaced
\* by the child); for a query with no word the tree is the Or of no children.
C5_CombinatorsCollapse ==
    pc = "created" =>
        IF Tokens = <<>> THEN tree = Or(<<>>)
        ELSE \A s \in Combinators(tree) : Len(s.children) >= 2

C5_Witness ==
    /\ pc = "created"
    /\ Len(Tokens) = 2
    /\ tree.op = "Or"
    /\ tree.children[2].op = "Query"
    /\ tree.children[1].op = "And"
    /\ \E i \in 1..2 :
          /\ tree.children[1].children[i].op = "Or"
          /\ tree.children[1].children[i].children[2].query.kind = "Phrase"

\* the groups of the interpretation with its group of g tokens at offset i
\* (0-based), each as <<first token, number of tokens>>
ExpectedGroups(n, g, i) ==
    [j \in 1..i |-> <<j - 1, 1>>] \o <<<<i, g>>>>
        \o [j \in 1..(n - i - g) |-> <<i + g + j - 1, 1>>]

\* the k-th interpretation in order of increasing g, then increasing i
ExpectedInterpretation(n, k) ==
    IF k = 1 THEN ExpectedGroups(n, 1, 0)
    ELSE IF k <= n THEN ExpectedGroups(n, 2, k - 2)
    ELSE ExpectedGroups(n, 3, k - n - 1)

\* the leaf every group starts from: Tolerant for one token, Exact of the
\* concatenation for several
ExpectedHead(grp, last) ==
    IF grp[2] = 1 THEN tolerant(grp[1], last, Tokens[grp[1] + 1].word)
    ELSE exact(grp[1], last,
               concat([j \in 1..grp[2] |-> Tokens[grp[1] + j].word]))

GroupOps(interp) == IF interp.op = "And" THEN interp.children ELSE <<interp>>

HeadOf(groupop) == IF groupop.op = "Or" THEN groupop.children[1].query ELSE groupop.query

\* C6: a query of n >= 1 tokens gives exactly 1 + max(0, n-1) + max(0, n-2)
\* interpretations, in order of increasing group size and then increasing
\* offset: all singletons once, then for g = 2, 3 and each offset the one whose
\* only multi-word group is tokens i..i+g, the others singletons in order.
C6_Interpretations ==
    (pc = "created" /\ Len(Tokens) >= 1) =>
        LET n == Len(Tokens)
        IN  /\ Len(ngrams) = 1 + Max(0, n - 1) + Max(0, n - 2)
            /\ \A k \in 1..Len(ngrams) :
                  LET want == ExpectedInterpretation(n, k)
                      got == GroupOps(ngrams[k])
                  IN  /\ Len(got) = Len(want)
                      /\ \A j \in 1..Len(got) :
                            HeadOf(got[j]) = ExpectedHead(want[j], j = Len(want))
            /\ tree = (IF Len(ngrams) = 1 THEN ngrams[1] ELSE Or(ngrams))

C6_Witness ==
    /\ pc = "created"
    /\ Len(Tokens) = 4
    /\ Len(ngrams) = 6
    /\ tree.op = "Or"
    /\ Len(tree.children) = 6

----------------------------------------------------------------------------
(* Properties of the best-frequency split *)

FreqOf(t) == IF t \in DOMAIN postings THEN Len(postings[t]) ELSE 0

Score(i) == Min(FreqOf(SubSeq(word, 1, i)), FreqOf(SubSeq(word, i + 1, Len(word))))

SplitPositions == 1..(Len(word) - 1)

BestPositions ==
    {i \in SplitPositions : Score(i) > 0 /\ \A j \in SplitPositions : Score(j) <= Score(i)}

\* C10: split_best_frequency returns the split at the smallest position whose
\* score (the smaller of the two sides' postings lengths, an absent side
\* counting 0) is positive and maximal, and none exactly when no position has
\* a positive score.
C10_BestSplit ==
    pc = "split" =>
        IF BestPositions = {} THEN best = None
        ELSE LET i == CHOOSE m \in BestPositions : \A j \in BestPositions : m <= j
             IN  best = Some(<<SubSeq(word, 1, i), SubSeq(word, i + 1, Len(word))>>)

C10_Witness ==
    /\ pc = "split"
    /\ best # None
    /\ Cardinality(BestPositions) >= 2
    /\ best[1][1] = SubSeq(word, 1, 1)

====
